---- MODULE Spec2Model ----
(***************************************************************************)
(* A model of CircularVec<T> (src/src/lib.rs): a Vec<T> of fixed length    *)
(* and a cursor `index` that next(), next_mut() and skip(n) advance modulo *)
(* the length, plus positional indexing of the backing Vec.                *)
(*                                                                         *)
(* Positions are 0-based as in the code; a TLA+ sequence is 1-based, so    *)
(* the element at position p of items is items[p + 1].                     *)
(*                                                                         *)
(* A panic unwinds out of the call that raised it.  The fields keep the    *)
(* values they had when the panic was raised, and a caller that catches    *)
(* the unwind can go on calling, so a panic is recorded as the outcome of  *)
(* the call (last.panic) and is not a terminal state.                      *)
(*                                                                         *)
(* self.index + 1 cannot overflow usize: index < items.len() whenever      *)
(* items is non-empty and index = 0 when it is empty, and a Vec holds at   *)
(* most isize::MAX elements.                                               *)
(***************************************************************************)
EXTENDS Integers, Sequences, FiniteSets, TLC

\* Longest source sequence collected into a container.
MaxLen == 4
\* Largest argument n given to skip(n); larger than MaxLen so that skip wraps.
MaxSkip == 6
\* The count of next() calls saturates here (two full cycles of MaxLen and one more).
MaxCalls == 9

\* The elements of tests::loop_through, 50, 60, 70, 80, continued.
Elem(i) == 40 + (10 * i)

\* The sources collected: the first n elements 50, 60, 70, ..., for n in 0..MaxLen.
Sources == {[i \in 1..n |-> Elem(i)] : n \in 0..MaxLen}

\* Values a caller writes through the reference next_mut() returns: one that
\* is already in the source (a duplicate) and one that is not.
WriteVals == {Elem(1), Elem(1) + 49}

\* Longest run of calls in which next() and next_mut() are exchanged.
MaxMix == 3

\* Arguments of skip(n), and the positions tried by cv[i] and cv[a..b].
SkipArgs == 0..MaxSkip
IndexArgs == 0..(MaxLen + 1)

VARIABLES
    source,     \* history: the sequence the container was collected from
    items,      \* CircularVec::items
    index,      \* CircularVec::index
    last,       \* the last call: its name, arguments, outcome and result
    written,    \* history: a value has been written through a next_mut() reference
    onlyNext,   \* history: every call since construction was next()
    calls,      \* history: the number of calls of next() while onlyNext, saturating at MaxCalls
    threads,    \* two unserialized invocations of next(): where each is, and its locals
    raceStart   \* history: the cursor when the first of them read it (<<>> before)

vars == <<source, items, index, last, written, onlyNext, calls, threads, raceStart>>

\* The variables of the unserialized invocations, which the calls of a single
\* caller leave alone.
raceVars == <<threads, raceStart>>

(***************************************************************************)
(* The methods, as functions from the container to the outcome of the call *)
(***************************************************************************)

\* The container as a value: struct CircularVec { items, index }.
Self == [items |-> items, index |-> index]

\* A call that returned: the container after it, the position its result refers
\* to (<<>> if none) and the elements its result refers to.
Ok(self, pos, ret) == [cv |-> self, panic |-> FALSE, pos |-> pos, ret |-> ret]

\* A call that panicked, with the container as it was when the panic was raised.
Panic(self) == [cv |-> self, panic |-> TRUE, pos |-> <<>>, ret |-> <<>>]

new(its) == [items |-> its, index |-> 0]

RECURSIVE push_all_front(_, _)
\* Variant of push_all: each element is inserted at the front.
push_all_front(iter, acc) ==
    IF iter = <<>> THEN acc
    ELSE push_all_front(Tail(iter), <<Head(iter)>> \o acc)

RECURSIVE push_all(_, _)
\* for i in iter { items.push(i) }
push_all(iter, acc) ==
    IF iter = <<>> THEN acc
    ELSE push_all(Tail(iter), Append(acc, Head(iter)))

from_iter(iter) == new(push_all(iter, <<>>))

\* Variant of increment_index: the increment without the remainder.
increment_index_nowrap(self) ==
    Ok([self EXCEPT !.index = self.index + 1], <<>>, <<>>)

\* Variant of increment_index: the cursor stops at the last position.
increment_index_saturate(self) ==
    IF Len(self.items) = 0 THEN Panic(self)
    ELSE IF self.index + 1 < Len(self.items)
         THEN Ok([self EXCEPT !.index = self.index + 1], <<>>, <<>>)
         ELSE Ok(self, <<>>, <<>>)

\* self.index = (self.index + 1) % self.items.len(): the remainder panics when
\* the divisor is zero, before index is assigned.
increment_index(self) ==
    IF Len(self.items) = 0 THEN Panic(self)
    ELSE Ok([self EXCEPT !.index = (self.index + 1) % Len(self.items)], <<>>, <<>>)

\* items[i] of the backing Vec: bounds-checked, panics when i >= len.
vec_index(self, i) ==
    IF i >= Len(self.items) THEN Panic(self)
    ELSE Ok(self, <<i>>, <<self.items[i + 1]>>)

\* Variant of next: reads the element at the cursor after the increment.
next_postinc(self) ==
    LET inc == increment_index(self)
    IN  IF inc.panic THEN inc ELSE vec_index(inc.cv, inc.cv.index)

\* Variant of next: returns the head and rotates items instead of moving the cursor.
next_rotate(self) ==
    IF Len(self.items) = 0 THEN Panic(self)
    ELSE Ok([self EXCEPT !.items = Append(Tail(self.items), Head(self.items))],
            <<self.index>>, <<Head(self.items)>>)

next(self) ==
    LET original_index == self.index
        inc == increment_index(self)
    IN  IF inc.panic THEN inc ELSE vec_index(inc.cv, original_index)

\* Variant of skip: the loop runs while n > 1.
RECURSIVE skip_offbyone(_, _)
skip_offbyone(self, n) ==
    IF n > 1
    THEN LET inc == increment_index(self)
         IN  IF inc.panic THEN inc ELSE skip_offbyone(inc.cv, n - 1)
    ELSE Ok(self, <<>>, <<>>)

\* Variant of skip: one increment for any n > 0.
skip_single(self, n) ==
    IF n > 0 THEN increment_index(self) ELSE Ok(self, <<>>, <<>>)

\* Variant of skip: a skip by the length or more is taken as a skip to the end.
skip_clamped(self, n) ==
    IF Len(self.items) = 0 THEN (IF n > 0 THEN Panic(self) ELSE Ok(self, <<>>, <<>>))
    ELSE IF self.index + n < Len(self.items)
         THEN Ok([self EXCEPT !.index = self.index + n], <<>>, <<>>)
         ELSE Ok([self EXCEPT !.index = Len(self.items) - 1], <<>>, <<>>)

RECURSIVE skip(_, _)
\* while n > 0 { self.increment_index(); n -= 1; }
skip(self, n) ==
    IF n > 0
    THEN LET inc == increment_index(self)
         IN  IF inc.panic THEN inc ELSE skip(inc.cv, n - 1)
    ELSE Ok(self, <<>>, <<>>)

\* Variant of next_mut: the reference is to the position after the increment.
next_mut_postinc(self) ==
    LET inc == increment_index(self)
    IN  IF inc.panic THEN inc ELSE vec_index(inc.cv, inc.cv.index)

\* Variant of next_mut: the cursor is advanced twice.
next_mut_twice(self) ==
    LET original_index == self.index
        inc == increment_index(self)
    IN  IF inc.panic THEN inc
        ELSE vec_index(increment_index(inc.cv).cv, original_index)

\* Variant of next_mut: the cursor is not advanced.
next_mut_noadv(self) == vec_index(self, self.index)

\* The result's pos is the position the returned &mut T refers to.
next_mut(self) ==
    LET original_index == self.index
        inc == increment_index(self)
    IN  IF inc.panic THEN inc ELSE vec_index(inc.cv, original_index)

\* The caller's write of v through the reference to position p.
write(self, p, v) == [self EXCEPT !.items[p + 1] = v]

\* Variant of index_usize: the position is taken relative to the cursor.
index_usize_rel(self, i) ==
    IF i >= Len(self.items) THEN Panic(self)
    ELSE vec_index(self, (self.index + i) % Len(self.items))

\* Variant of index_usize: the position wraps modulo the length.
index_usize_wrap(self, i) ==
    IF Len(self.items) = 0 THEN Panic(self)
    ELSE vec_index(self, i % Len(self.items))

\* cv[i]: Index::index(&*self.items, i) with i: usize.
index_usize(self, i) ==
    IF i >= Len(self.items) THEN Panic(self)
    ELSE Ok(self, <<i>>, <<self.items[i + 1]>>)

\* Variant of index_range: the cursor moves past the elements returned.
index_range_adv(self, a, b) ==
    IF a > b \/ b > Len(self.items) THEN Panic(self)
    ELSE Ok([self EXCEPT !.index = self.index + (b - a)],
            <<>>, SubSeq(self.items, a + 1, b))

\* cv[a..b]: Index::index(&*self.items, a..b); the slice panics when the range
\* is reversed or ends past the length.
index_range(self, a, b) ==
    IF a > b THEN Panic(self)
    ELSE IF b > Len(self.items) THEN Panic(self)
    ELSE Ok(self, <<>>, SubSeq(self.items, a + 1, b))

(***************************************************************************)
(* The state machine                                                       *)
(***************************************************************************)

Call(op, args, r, wrote) ==
    [op |-> op, args |-> args, panic |-> r.panic, pos |-> r.pos, ret |-> r.ret,
     wrote |-> wrote]

\* The two invocations of next() that are not serialized.
Threads == {"A", "B"}

\* An invocation that has not started: original_index is the local of next(),
\* loaded the value of self.index read by increment_index, pos and ret the
\* position and element returned.
Idle == [pc |-> "idle", original_index |-> 0, loaded |-> 0, pos |-> <<>>, ret |-> <<>>]

\* The state right after `source.into_iter().collect()`.
Init ==
    /\ source \in Sources
    /\ items = from_iter(source).items
    /\ index = from_iter(source).index
    /\ last = Call("from_iter", <<>>, Ok(from_iter(source), <<>>, <<>>), <<>>)
    /\ written = FALSE
    /\ onlyNext = TRUE
    /\ calls = 0
    /\ threads = [t \in Threads |-> Idle]
    /\ raceStart = <<>>

NextCall ==
    LET r == next(Self)
    IN  /\ items' = r.cv.items
        /\ index' = r.cv.index
        /\ last' = Call("next", <<>>, r, <<>>)
        /\ calls' = IF onlyNext /\ calls < MaxCalls THEN calls + 1 ELSE calls
        /\ UNCHANGED <<source, written, onlyNext>>
        /\ UNCHANGED raceVars

\* next_mut(), and what the caller does with the reference before the next
\* call into the container: nothing (w = <<>>) or the write of w[1].
NextMutCall ==
    \E w \in {<<>>} \cup {<<v>> : v \in WriteVals} :
        LET r == next_mut(Self)
            wrote == IF r.panic THEN <<>> ELSE w
            after == IF wrote = <<>> THEN r.cv ELSE write(r.cv, r.pos[1], wrote[1])
        IN  /\ items' = after.items
            /\ index' = after.index
            /\ last' = Call("next_mut", <<>>, r, wrote)
            /\ written' = (written \/ wrote # <<>>)
            /\ onlyNext' = FALSE
            /\ calls' = 0
            /\ UNCHANGED source
            /\ UNCHANGED raceVars

SkipCall ==
    \E n \in SkipArgs :
        LET r == skip(Self, n)
        IN  /\ items' = r.cv.items
            /\ index' = r.cv.index
            /\ last' = Call("skip", <<n>>, r, <<>>)
            /\ onlyNext' = FALSE
            /\ calls' = 0
            /\ UNCHANGED <<source, written>>
            /\ UNCHANGED raceVars

IndexCall ==
    \E i \in IndexArgs :
        LET r == index_usize(Self, i)
        IN  /\ items' = r.cv.items
            /\ index' = r.cv.index
            /\ last' = Call("index", <<i>>, r, <<>>)
            /\ onlyNext' = FALSE
            /\ calls' = 0
            /\ UNCHANGED <<source, written>>
            /\ UNCHANGED raceVars

IndexRangeCall ==
    \E a \in IndexArgs, b \in IndexArgs :
        LET r == index_range(Self, a, b)
        IN  /\ items' = r.cv.items
            /\ index' = r.cv.index
            /\ last' = Call("index_range", <<a, b>>, r, <<>>)
            /\ onlyNext' = FALSE
            /\ calls' = 0
            /\ UNCHANGED <<source, written>>
            /\ UNCHANGED raceVars

Next ==
    \/ NextCall
    \/ NextMutCall
    \/ SkipCall
    \/ IndexCall
    \/ IndexRangeCall

Spec == Init /\ [][Next]_vars

\* The calls that move the cursor.
Advance ==
    \/ NextCall
    \/ NextMutCall
    \/ SkipCall

\* The container used by a caller that makes advancing calls only. The index
\* calls left out change neither items nor index, so the containers reached
\* are those of Spec.
SpecAdvance == Init /\ [][Advance]_vars

\* SpecAdvance for a caller that calls next() again and again: a call of next()
\* that would change the state is not put off forever.
SpecFair == SpecAdvance /\ WF_vars(NextCall)

(***************************************************************************)
(* Two invocations of next() on the same container, not serialized, in     *)
(* steps of one read or one write of self.index each                       *)
(***************************************************************************)

\* Neither invocation has started.
NoRace == \A t \in Threads : threads[t].pc = "idle"

\* Before the invocations start, the single caller moves the cursor.
RaceSetup == NoRace /\ SkipCall

\* let original_index = self.index;
RaceRead(t) ==
    /\ threads[t].pc = "idle"
    /\ threads' = [threads EXCEPT ![t].pc = "read", ![t].original_index = index]
    /\ raceStart' = IF raceStart = <<>> THEN <<index>> ELSE raceStart
    /\ UNCHANGED <<source, items, index, last, written, onlyNext, calls>>

\* increment_index reads self.index ...
RaceLoad(t) ==
    /\ threads[t].pc = "read"
    /\ threads' = [threads EXCEPT ![t].pc = "loaded", ![t].loaded = index]
    /\ UNCHANGED <<source, items, index, last, written, onlyNext, calls, raceStart>>

\* ... and writes (the value read + 1) % self.items.len() to self.index.
RaceStore(t) ==
    /\ threads[t].pc = "loaded"
    /\ LET r == increment_index([items |-> items, index |-> threads[t].loaded])
       IN  /\ index' = IF r.panic THEN index ELSE r.cv.index
           /\ threads' = [threads EXCEPT ![t].pc = IF r.panic THEN "panicked" ELSE "stored"]
    /\ UNCHANGED <<source, items, last, written, onlyNext, calls, raceStart>>

\* Variant of RaceReturn: the element returned is the one at the cursor as it
\* is when the call returns.
RaceReturnReload(t) ==
    /\ threads[t].pc = "stored"
    /\ LET r == vec_index(Self, index)
       IN  threads' = [threads EXCEPT ![t].pc = IF r.panic THEN "panicked" ELSE "done",
                                      ![t].pos = r.pos, ![t].ret = r.ret]
    /\ UNCHANGED <<source, items, index, last, written, onlyNext, calls, raceStart>>

\* &self.items[original_index]
RaceReturn(t) ==
    /\ threads[t].pc = "stored"
    /\ LET r == vec_index(Self, threads[t].original_index)
       IN  threads' = [threads EXCEPT ![t].pc = IF r.panic THEN "panicked" ELSE "done",
                                      ![t].pos = r.pos, ![t].ret = r.ret]
    /\ UNCHANGED <<source, items, index, last, written, onlyNext, calls, raceStart>>

RaceNext ==
    \/ RaceSetup
    \/ \E t \in Threads : RaceRead(t)
    \/ \E t \in Threads : RaceLoad(t)
    \/ \E t \in Threads : RaceStore(t)
    \/ \E t \in Threads : RaceReturn(t)

SpecRace == Init /\ [][RaceNext]_vars

(***************************************************************************)
(* Helpers of the properties                                               *)
(***************************************************************************)

RECURSIVE NextTimes(_, _)
\* The outcome of the last of m >= 1 calls of next() in a row, starting from
\* self (of the first one that panics, if one does).
NextTimes(self, m) ==
    LET r == next(self)
    IN  IF m <= 1 \/ r.panic THEN r ELSE NextTimes(r.cv, m - 1)

\* The container in the state after the step.
SelfAfter == [items |-> items', index |-> index']

Advances == {"next", "next_mut", "skip"}

(***************************************************************************)
(* C1..C10                                                                 *)
(***************************************************************************)

\* C1: wrap-around correctness. On a container collected from n >= 1 elements
\* e0..e(n-1) on which only next() has been called, the i-th call (0-indexed;
\* it is the call number calls = i + 1) returns e(i mod n) and does not panic.
\* The count is exact below MaxCalls, where it saturates.
C1_WrapAround ==
    (onlyNext /\ Len(source) >= 1 /\ calls >= 1 /\ calls < MaxCalls)
        => /\ last.op = "next"
           /\ ~last.panic
           /\ last.ret = <<source[((calls - 1) % Len(source)) + 1]>>

\* C1 witness: the call after the one that returned e(n-1) has returned e0.
C1_Witness ==
    /\ onlyNext /\ Len(source) >= 2 /\ calls = Len(source) + 1
    /\ last.op = "next" /\ last.ret = <<source[1]>>

\* C2: cursor invariant. On a container built from n >= 1 elements,
\* 0 <= index < items.len() in the state after construction and after every
\* call of next(), next_mut(), skip(k), cv[i] and cv[a..b].
C2_CursorInvariant ==
    Len(source) >= 1 => (0 <= index /\ index < Len(items))

\* C2 witness: a skip by more than the length has gone past the last position
\* and left the cursor on the last position again.
C2_Witness ==
    /\ Len(items) >= 2 /\ last.op = "skip" /\ ~last.panic
    /\ last.args[1] > Len(items) /\ index = Len(items) - 1

\* C3: skip equivalence. In every reachable state of a non-empty container and
\* for every k in 0..MaxSkip, skip(k) followed by next() has the same outcome
\* (returned element and position, cursor and items afterwards) as k + 1 calls
\* of next() in a row; and on [50, 60, 70, 80] with the cursor at 0, skip(2)
\* followed by next() returns 70.
C3_SkipEquivalence ==
    /\ Len(items) >= 1 =>
          \A k \in SkipArgs :
              /\ ~skip(Self, k).panic
              /\ next(skip(Self, k).cv) = NextTimes(Self, k + 1)
    /\ (items = <<50, 60, 70, 80>> /\ index = 0) =>
          next(skip(Self, 2).cv).ret = <<70>>

\* C3 witness: a state other than the initial one (a skip has moved the cursor
\* to the last position and an element has been overwritten) from which
\* skip(MaxSkip) wraps around before next() reads.
C3_Witness ==
    /\ Len(items) >= 2 /\ index = Len(items) - 1 /\ written
    /\ last.op = "skip" /\ last.args[1] >= 1
    /\ next(skip(Self, MaxSkip).cv).pos = <<(index + MaxSkip) % Len(items)>>
    /\ (index + MaxSkip) % Len(items) < index

\* C4: empty construction. Collecting a source of 0 elements either fails at
\* construction or yields a container on which next(), next_mut() and skip(k)
\* never panic. from_iter has no failing path (it returns Self), so the statement
\* is that no advance panics on a container collected from the empty source.
C4_EmptyConstruction ==
    Len(source) = 0 => ~(last.op \in Advances /\ last.panic)

\* C5: next() always has an item to return. On every container construction
\* can produce, and in every reachable state, a call of next() or next_mut()
\* does not panic and returns a reference to a position of items.
C5_NextAlwaysYields ==
    last.op \in {"next", "next_mut"}
        => /\ ~last.panic
           /\ Len(last.pos) = 1
           /\ last.pos[1] < Len(items)
           /\ Len(last.ret) = 1

\* C6: indexing independence. As long as nothing has been written through a
\* next_mut() reference, cv[i] returns the element the construction placed at
\* position i, for every i in 0..n-1 and whatever the cursor is: both for the
\* cv[i] calls made and for every cv[i] that could be made in the state.
C6_IndexingIndependence ==
    ~written =>
        /\ \A i \in 0..(Len(source) - 1) :
               /\ ~index_usize(Self, i).panic
               /\ index_usize(Self, i).ret = <<source[i + 1]>>
        /\ (last.op = "index" /\ last.args[1] < Len(source))
               => (~last.panic /\ last.ret = <<source[last.args[1] + 1]>>)

\* C6 witness: with the cursor moved off 0 by advances and nothing written,
\* cv[i] has been called for a position that is not the cursor's.
C6_Witness ==
    /\ ~written /\ Len(source) >= 3 /\ index = 2
    /\ last.op = "index" /\ ~last.panic /\ last.args = <<1>>
    /\ last.ret = <<source[2]>>

\* The positions at which two sequences of the same length differ.
Changed(s, t) == {p \in 0..(Len(s) - 1) : s[p + 1] # t[p + 1]}

\* C7: mutation persistence. A step that is next_mut() called with the cursor
\* at p, followed by the write of v through the returned reference, ends in a
\* state where cv[p] = v, where the n-th advance-and-read from there (the
\* next one that addresses p) returns v from position p, and where every
\* position other than p holds what it held before.
C7_MutationPersistence ==
    [][(last'.op = "next_mut" /\ last'.wrote # <<>>) =>
          LET p == index
              v == last'.wrote[1]
              n == Len(items')
          IN  /\ ~last'.panic
              /\ last'.pos = <<p>>
              /\ Len(items') = Len(items)
              /\ index_usize(SelfAfter, p).ret = <<v>>
              /\ NextTimes(SelfAfter, n).pos = <<p>>
              /\ NextTimes(SelfAfter, n).ret = <<v>>
              /\ \A m \in 1..(n - 1) : NextTimes(SelfAfter, m).pos # <<p>>
              /\ \A q \in 0..(n - 1) : q # p => items'[q + 1] = items[q + 1]
      ]_vars

\* C7 witness: a value that was not there has been written through next_mut()
\* at a position other than 0 of a container of at least 3 elements.
C7_Witness ==
    /\ last.op = "next_mut" /\ last.wrote = <<99>> /\ last.ret # <<99>>
    /\ Len(items) >= 3 /\ last.pos = <<1>> /\ items[2] = 99 /\ index = 2

\* C8: out-of-bounds indexing. cv[i] panics exactly when i >= items.len(), and
\* when it does not it returns the element at absolute position i (not i
\* modulo the length, not i past the cursor); cv[a..b] panics exactly when
\* a > b or b > items.len(), and otherwise returns the elements at positions
\* a..b-1; an index call that panics leaves cursor and items unchanged.
C8_OutOfBounds ==
    [][/\ last'.op = "index" =>
             LET i == last'.args[1]
             IN  /\ last'.panic <=> (i >= Len(items))
                 /\ ~last'.panic => (last'.pos = <<i>> /\ last'.ret = <<items[i + 1]>>)
       /\ last'.op = "index_range" =>
             LET a == last'.args[1]
                 b == last'.args[2]
             IN  /\ last'.panic <=> (a > b \/ b > Len(items))
                 /\ ~last'.panic => last'.ret = [j \in 1..(b - a) |-> items[a + j]]
       /\ (last'.op \in {"index", "index_range"} /\ last'.panic)
             => (items' = items /\ index' = index)
      ]_vars

\* C8 witness: cv[i] with i = items.len() has panicked on a non-empty
\* container whose cursor is not 0 (i modulo the length, and i past the
\* cursor modulo the length, are both positions of the container).
C8_Witness ==
    /\ last.op = "index" /\ last.panic /\ Len(items) >= 2
    /\ last.args = <<Len(items)>> /\ index = 1

\* C9: positional indexing has no effect on the state. A call cv[i] or
\* cv[a..b], whether it returns or panics, leaves the cursor and every element
\* of items unchanged, so next() called after it has the outcome it would have
\* had without it.
C9_IndexNoEffect ==
    [][last'.op \in {"index", "index_range"} =>
          /\ index' = index
          /\ items' = items
          /\ next(SelfAfter) = next(Self)
      ]_vars

\* C9 witness: a range of two elements has been returned from a container
\* whose cursor is in the middle of that range's positions.
C9_Witness ==
    /\ last.op = "index_range" /\ ~last.panic /\ Len(last.ret) = 2
    /\ last.args = <<1, 3>> /\ index = 2

\* C10: fixed length and order. items.len() is in every reachable state what it
\* was right after construction; next() and skip(k) leave items unchanged; and
\* a step that changes items is a next_mut() with a write, which changes the
\* value at one position, the one the returned reference refers to.
C10_FixedLengthAndOrder ==
    /\ [](Len(items) = Len(source))
    /\ [][/\ last'.op \in {"next", "skip"} => items' = items
          /\ items' # items =>
                /\ last'.op = "next_mut" /\ last'.wrote # <<>>
                /\ Len(items') = Len(items)
                /\ Changed(items, items') = {last'.pos[1]}
         ]_vars

\* C10 witness: after a write, next() has wrapped around the end of a container
\* whose items still differ from the source at one position only.
C10_Witness ==
    /\ last.op = "next" /\ ~last.panic /\ written
    /\ Len(items) >= 3 /\ Len(items) = Len(source)
    /\ last.pos = <<Len(items) - 1>> /\ index = 0
    /\ Cardinality(Changed(source, items)) = 1

(***************************************************************************)
(* C11..C17                                                                *)
(***************************************************************************)

\* C11: construction. Collecting a source that yields x0..x(n-1) gives a
\* container whose items are x0..x(n-1), in that order and with that length,
\* and whose cursor is 0: in the state right after construction, and for
\* every source of Sources.
C11_Construction ==
    /\ last.op = "from_iter" =>
          (Len(items) = Len(source) /\ items = source /\ index = 0)
    /\ \A src \in Sources :
          /\ from_iter(src).items = src
          /\ from_iter(src).index = 0

\* C11 witness: the state right after collecting 50, 60, 70 or more.
C11_Witness ==
    /\ last.op = "from_iter" /\ Len(source) >= 3
    /\ items[1] = 50 /\ items[2] = 60 /\ items[3] = 70 /\ index = 0

\* C12: skip transition. A skip(k) step on a non-empty container with the
\* cursor at c does not panic, returns nothing, leaves items unchanged and
\* ends with the cursor at (c + k) mod items.len(), for every k in 0..MaxSkip
\* (k >= items.len() included); a skip(0) step changes neither cursor nor
\* items and does not panic in any state, the empty container included.
C12_SkipTransition ==
    [][last'.op = "skip" =>
          LET k == last'.args[1]
          IN  /\ Len(items) >= 1 =>
                    /\ ~last'.panic
                    /\ index' = (index + k) % Len(items)
                    /\ items' = items
                    /\ last'.ret = <<>> /\ last'.pos = <<>>
              /\ k = 0 => (~last'.panic /\ index' = index /\ items' = items)
      ]_vars

\* C12 witness: skip(k) with k larger than the length has wrapped from a
\* cursor other than 0 to a cursor below it.
C12_Witness ==
    /\ last.op = "skip" /\ ~last.panic /\ Len(items) = 3
    /\ last.args = <<5>> /\ index = 0 /\ written

RECURSIVE MixedTrace(_, _, _)
\* The outcomes of m advance-and-read calls in a row starting from self, none
\* followed by a write: call number j (from 0) is next_mut() when bit j of
\* mask is 1 and next() when it is 0. The run ends at the first panic.
MixedTrace(self, m, mask) ==
    IF m = 0 THEN <<>>
    ELSE LET r == IF mask % 2 = 1 THEN next_mut(self) ELSE next(self)
         IN  IF r.panic THEN <<r>>
             ELSE <<r>> \o MixedTrace(r.cv, m - 1, mask \div 2)

\* C13: next_mut() and next() are equivalent in addressing and advancement.
\* In every reachable state the two have the same outcome (position, element,
\* panic, container afterwards); on a non-empty container both address the
\* old cursor and leave the cursor at (old cursor + 1) mod items.len(); every
\* run of MaxMix calls with any of the next() calls replaced by next_mut()
\* without a write has the outcomes of the run of next() calls alone; and the
\* next_mut() steps without a write, and the next() steps, taken by the
\* container end as the other method would have.
C13_NextMutEquivalence ==
    /\ [](/\ next_mut(Self) = next(Self)
          /\ Len(items) >= 1 =>
                /\ next(Self).pos = <<index>>
                /\ next_mut(Self).pos = <<index>>
                /\ next(Self).cv.index = (index + 1) % Len(items)
                /\ next_mut(Self).cv.index = (index + 1) % Len(items)
          /\ \A mask \in 0..((2 ^ MaxMix) - 1) :
                MixedTrace(Self, MaxMix, mask) = MixedTrace(Self, MaxMix, 0))
    /\ [][/\ (last'.op = "next_mut" /\ last'.wrote = <<>>) =>
                /\ SelfAfter = next(Self).cv
                /\ last'.pos = next(Self).pos
                /\ last'.ret = next(Self).ret
                /\ last'.panic = next(Self).panic
          /\ last'.op = "next" =>
                /\ SelfAfter = next_mut(Self).cv
                /\ last'.pos = next_mut(Self).pos
                /\ last'.ret = next_mut(Self).ret
                /\ last'.panic = next_mut(Self).panic
         ]_vars

\* C13 witness: next_mut() without a write has returned the last element and
\* wrapped the cursor to 0, as next() does.
C13_Witness ==
    /\ last.op = "next_mut" /\ last.wrote = <<>> /\ ~last.panic
    /\ Len(items) >= 2 /\ last.pos = <<Len(items) - 1>> /\ index = 0

\* C14: the machine never halts. On a non-empty container, in every reachable
\* state next(), next_mut() and skip(k) are enabled and do not panic, and no
\* advance taken panics; and in a run in which from some point on next() is
\* the only call made, again and again, every position 0..n-1 is returned by
\* next() infinitely often.
C14_NeverHalts ==
    /\ [](Len(items) >= 1 =>
             /\ ENABLED NextCall
             /\ ENABLED NextMutCall
             /\ ENABLED SkipCall
             /\ ~next(Self).panic
             /\ ~next_mut(Self).panic
             /\ \A k \in SkipArgs : ~skip(Self, k).panic)
    /\ [][(last'.op \in Advances /\ Len(items) >= 1) => ~last'.panic]_vars
    /\ (<>[][NextCall]_vars) =>
           \A p \in 0..(MaxLen - 1) :
               []<>(p < Len(source) =>
                       (last.op = "next" /\ ~last.panic /\ last.pos = <<p>>))

\* C14 witness: next() called again and again, and nothing else, has returned
\* the last position of a container of at least 3 elements a second time.
C14_Witness ==
    /\ onlyNext /\ Len(source) >= 3 /\ calls = 2 * Len(source)
    /\ last.op = "next" /\ ~last.panic /\ last.pos = <<Len(source) - 1>>

\* C16: full-cycle coverage. From every reachable state of a container of
\* n >= 1 elements, n advance-and-read calls in a row, each of them next() or
\* next_mut() in any mix, do not panic, address position (cursor + j) mod n at
\* call number j, so every position 0..n-1 exactly once, and leave the cursor
\* where it was before the first of them.
C16_FullCycle ==
    Len(items) >= 1 =>
        LET n == Len(items)
        IN  \A mask \in 0..((2 ^ n) - 1) :
                LET t == MixedTrace(Self, n, mask)
                IN  /\ Len(t) = n
                    /\ \A j \in 1..n :
                           /\ ~t[j].panic
                           /\ t[j].pos = <<(index + j - 1) % n>>
                           /\ t[j].cv.items = items
                    /\ {t[j].pos[1] : j \in 1..n} = 0..(n - 1)
                    /\ t[n].cv.index = index

\* C16 witness: n calls of next() in a row on a container of n >= 3 elements
\* have just ended on the last position, with the cursor back where it was.
C16_Witness ==
    /\ onlyNext /\ Len(source) >= 3 /\ calls = Len(source)
    /\ last.op = "next" /\ last.pos = <<Len(items) - 1>> /\ index = 0
    /\ MixedTrace(Self, Len(items), 5)[Len(items)].cv.index = 0

\* C17: skip is additive and periodic. From every reachable state of a
\* non-empty container and for all a, b in 0..MaxSkip, skip(a) then skip(b),
\* skip(b) then skip(a), and skip(a + b) leave the same state; skip(items.len())
\* leaves the state unchanged; and skip(a) and skip(a mod items.len()) leave the
\* same state.
C17_SkipAdditive ==
    Len(items) >= 1 =>
        /\ skip(Self, Len(items)) = Ok(Self, <<>>, <<>>)
        /\ \A a \in SkipArgs :
               /\ skip(Self, a) = skip(Self, a % Len(items))
               /\ \A b \in SkipArgs :
                      /\ skip(skip(Self, a).cv, b) = skip(Self, a + b)
                      /\ skip(skip(Self, a).cv, b) = skip(skip(Self, b).cv, a)

\* C17 witness: a skip by more than the length has been made from a cursor
\* other than 0, on a container an element of which has been overwritten.
C17_Witness ==
    /\ last.op = "skip" /\ ~last.panic /\ written /\ Len(items) >= 3
    /\ last.args[1] > Len(items) /\ index = 1
    /\ skip(skip(Self, 1).cv, 2).cv.index = (index + 3) % Len(items)

\* Both unserialized invocations have returned.
RaceDone == \A t \in Threads : threads[t].pc = "done"

\* The outcome of the two invocations made one after the other, x first, from
\* cursor c on n elements: x returns position c, y position (c + 1) mod n, and
\* the cursor ends at (c + 2) mod n.
Sequential(x, y, c, n) ==
    /\ threads[x].pos = <<c>>
    /\ threads[y].pos = <<(c + 1) % n>>
    /\ index = (c + 2) % n

\* One position read twice: both invocations return position c. The cursor has
\* advanced once (an advance is lost) or twice.
ReadTwice(c, n) ==
    /\ \A t \in Threads : threads[t].pos = <<c>>
    /\ index \in {(c + 1) % n, (c + 2) % n}

\* C15: unserialized concurrent advances. When two invocations of next() on a
\* non-empty container are interleaved at the granularity of the reads and
\* the write of the cursor, every outcome is that of one of the two sequential
\* orders or one in which an element is read twice, and the cursor stays in
\* [0, length); the outcome with an element read twice, which no sequential
\* order gives, is reached (C15_Witness).
C15_RaceOutcomes ==
    /\ \A t \in Threads : threads[t].pc # "idle" => raceStart # <<>>
    /\ (Len(items) >= 1 /\ raceStart # <<>>) =>
          /\ 0 <= index /\ index < Len(items)
          /\ \A t \in Threads : threads[t].pc # "panicked"
    /\ (Len(items) >= 1 /\ RaceDone) =>
          LET c == raceStart[1]
              n == Len(items)
          IN  \/ Sequential("A", "B", c, n)
              \/ Sequential("B", "A", c, n)
              \/ ReadTwice(c, n)

\* C15 witness: on at least 3 elements both invocations have returned the
\* same position c, and the cursor has advanced by one only; in either
\* sequential order the positions returned are c and c + 1 and the cursor
\* ends at c + 2.
C15_Witness ==
    /\ RaceDone /\ Len(items) >= 3 /\ raceStart # <<>>
    /\ threads["A"].pos = raceStart /\ threads["B"].pos = raceStart
    /\ threads["A"].ret = threads["B"].ret
    /\ index = (raceStart[1] + 1) % Len(items)
    /\ ~Sequential("A", "B", raceStart[1], Len(items))
    /\ ~Sequential("B", "A", raceStart[1], Len(items))

====
